---- MODULE Spec2Model ----
(***************************************************************************)
(* ETF TCO calculator (src/src/App.tsx): the form state of the App         *)
(* component, its event handlers, and the projection calculateTCO.         *)
(*                                                                         *)
(* Numbers.  A JavaScript number is modelled as a value [n, d]:            *)
(*   d > 0          the finite value n/d, in lowest terms                  *)
(*   d = 0, n = 1   +Infinity      d = 0, n = -1   -Infinity               *)
(*   d = 0, n = 0   NaN                                                    *)
(* The arithmetic is exact: +, -, *, / and Math.pow follow the IEEE-754    *)
(* rules for zero, infinite and NaN operands, and binary64 rounding of     *)
(* finite results is abstracted.  Zero carries no sign; the only divisors  *)
(* that can be zero (numberOfTrades, holdingPeriod) are +0 in the program, *)
(* because handleInputChange stores `-0 || 0`, that is +0.                 *)
(***************************************************************************)
EXTENDS Integers, Sequences, FiniteSets, TLC

VARIABLES inputs, isPercentageMode, isBrokeragePercentage, results, pc, nEvents,
          i, recurringFV, lastEvent, before

vars == <<inputs, isPercentageMode, isBrokeragePercentage, results, pc, nEvents,
          i, recurringFV, lastEvent, before>>

(***************************************************************************)
(* Bounds of the model.                                                    *)
(***************************************************************************)
\* largest whole holding period (years) the projection is run on
MaxHolding == 2
\* largest compounded monthly growth factor the exact arithmetic carries
MaxGrowth == 4096
\* number of user events explored from the initial form
MaxEvents == 2
\* longest text typed into an input field
MaxTextLen == 2

(***************************************************************************)
(* Numbers                                                                 *)
(***************************************************************************)
Abs(k) == IF k < 0 THEN -k ELSE k

Sign(k) == IF k < 0 THEN -1 ELSE IF k > 0 THEN 1 ELSE 0

RECURSIVE Gcd(_, _)
Gcd(a, b) == IF b = 0 THEN a ELSE Gcd(b, a % b)

\* the finite number n/d (d # 0), in lowest terms with a positive denominator
Rat(n, d) ==
  LET g == Gcd(Abs(n), Abs(d))
  IN  [n |-> Sign(d) * (n \div g), d |-> Abs(d) \div g]

FromInt(k) == [n |-> k, d |-> 1]

Zero == FromInt(0)

One == FromInt(1)

NaN == [n |-> 0, d |-> 0]

Infinity(s) == [n |-> s, d |-> 0]

IsNaN(x) == x.d = 0 /\ x.n = 0

IsFinite(x) == x.d > 0

IsWhole(x) == x.d = 1

\* x + y
Add(x, y) ==
  IF IsNaN(x) \/ IsNaN(y) THEN NaN
  ELSE IF x.d = 0 /\ y.d = 0 THEN (IF x.n = y.n THEN x ELSE NaN)
  ELSE IF x.d = 0 THEN x
  ELSE IF y.d = 0 THEN y
  ELSE LET g == Gcd(x.d, y.d)
       IN  Rat(x.n * (y.d \div g) + y.n * (x.d \div g), (x.d \div g) * y.d)

Neg(x) == [n |-> -x.n, d |-> x.d]

\* x - y
Sub(x, y) == Add(x, Neg(y))

\* x * y
Mul(x, y) ==
  IF IsNaN(x) \/ IsNaN(y) THEN NaN
  ELSE IF x.d = 0 \/ y.d = 0
       THEN (IF x.n = 0 \/ y.n = 0 THEN NaN ELSE Infinity(Sign(x.n) * Sign(y.n)))
  ELSE LET g1 == Gcd(Abs(x.n), y.d)
           g2 == Gcd(Abs(y.n), x.d)
       IN  [n |-> (x.n \div g1) * (y.n \div g2), d |-> (x.d \div g2) * (y.d \div g1)]

\* x / y  (a zero divisor is +0)
Div(x, y) ==
  IF IsNaN(x) \/ IsNaN(y) THEN NaN
  ELSE IF y.d = 0 THEN (IF x.d = 0 THEN NaN ELSE Zero)
  ELSE IF y.n = 0 THEN (IF x.n = 0 THEN NaN ELSE Infinity(Sign(x.n)))
  ELSE IF x.d = 0 THEN Infinity(Sign(x.n) * Sign(y.n))
  ELSE Mul(x, [n |-> Sign(y.n) * y.d, d |-> Abs(y.n)])

\* x < y  (false when either side is NaN)
Lt(x, y) ==
  IF IsNaN(x) \/ IsNaN(y) THEN FALSE
  ELSE IF x.d = 0 \/ y.d = 0
       THEN (IF x.d = 0 /\ y.d = 0 THEN x.n < y.n
             ELSE IF x.d = 0 THEN x.n < 0 ELSE y.n > 0)
  ELSE x.n * y.d < y.n * x.d

RECURSIVE PowInt(_, _)
PowInt(x, k) ==
  IF k = 0 THEN One
  ELSE LET half == PowInt(x, k \div 2)
       IN  IF k % 2 = 0 THEN Mul(half, half) ELSE Mul(x, Mul(half, half))

\* Math.pow(x, y) for a whole exponent y, by repeated multiplication; the
\* exponents of calculateTCO are holdingPeriod and totalMonths - i, whole
\* whenever holdingPeriod is, and SpecCalc draws whole holding periods only
Pow(x, y) ==
  IF y.n >= 0 THEN PowInt(x, y.n) ELSE Div(One, PowInt(x, -y.n))

(***************************************************************************)
(* calculateTCO, one definition per statement.  Every definition reads the *)
(* form state (inp, and the mode flag it branches on) and the locals it    *)
(* uses; the recurring-investment loop runs as steps of SpecCalc, and rfv  *)
(* is the recurringFV it leaves.                                           *)
(***************************************************************************)
monthlyRate(inp) == Div(Div(inp.expectedReturn, FromInt(100)), FromInt(12))

totalMonths(inp) == Mul(inp.holdingPeriod, FromInt(12))

\* variant: a yearly contribution is not split over the months
monthlyInvestment_unsplit(inp) == inp.recurringAmount

monthlyInvestment(inp) ==
  IF inp.isMonthly THEN inp.recurringAmount ELSE Div(inp.recurringAmount, FromInt(12))

\* variant: the start capital earns simple interest, without compounding
startCapitalFV_simple(inp) ==
  Mul(inp.startCapital,
      Add(One, Mul(Div(inp.expectedReturn, FromInt(100)), inp.holdingPeriod)))

startCapitalFV(inp) ==
  Mul(inp.startCapital,
      Pow(Add(One, Div(inp.expectedReturn, FromInt(100))), inp.holdingPeriod))

\* for (...; i < totalMonths; ...): the loop test
loopContinues(k, months) == Lt(FromInt(k), months)

\* variant: a contribution compounds from the end of its month
loopExponent_fromMonthEnd(k, months) == Sub(months, FromInt(k + 1))

\* the exponent of the contribution added in iteration k
loopExponent(k, months) == Sub(months, FromInt(k))

\* monthlyInvestment * Math.pow(1 + monthlyRate, totalMonths - i)
loopTerm(inp, k) ==
  Mul(monthlyInvestment(inp),
      Pow(Add(One, monthlyRate(inp)), loopExponent(k, totalMonths(inp))))

finalInvestmentValue(inp, rfv) == Add(startCapitalFV(inp), rfv)

totalInvested(inp) ==
  Add(inp.startCapital, Mul(monthlyInvestment(inp), totalMonths(inp)))

totalReturns(inp, fiv) == Sub(fiv, totalInvested(inp))

\* variant: the mode flag is ignored and the percentage basis always used
expenseRatioCost_ignoresMode(inp, percentageMode, fiv) ==
  Div(Mul(Mul(Div(inp.expenseRatio, FromInt(100)), fiv), inp.holdingPeriod), FromInt(2))

expenseRatioCost(inp, percentageMode, fiv) ==
  IF percentageMode
  THEN Div(Mul(Mul(Div(inp.expenseRatio, FromInt(100)), fiv), inp.holdingPeriod), FromInt(2))
  ELSE Mul(inp.expenseRatioFixed, inp.holdingPeriod)

\* variant: one trade a month at either cadence
numberOfTrades_alwaysMonthly(inp) == totalMonths(inp)

numberOfTrades(inp) == IF inp.isMonthly THEN totalMonths(inp) ELSE inp.holdingPeriod

\* variant: the trade size counts the recurring contributions only
averageTradeSize_contributionsOnly(inp) ==
  Div(Mul(monthlyInvestment(inp), totalMonths(inp)), numberOfTrades(inp))

averageTradeSize(inp) == Div(totalInvested(inp), numberOfTrades(inp))

spreadCost(inp) == Mul(Mul(inp.bidAskSpread, inp.numberOfShares), numberOfTrades(inp))

brokerageFeePerTrade(inp, brokeragePercentage) ==
  IF brokeragePercentage
  THEN Mul(Div(inp.brokerageFeePercent, FromInt(100)), averageTradeSize(inp))
  ELSE inp.brokerageFee

totalBrokerageFees(inp, brokeragePercentage) ==
  Mul(brokerageFeePerTrade(inp, brokeragePercentage), numberOfTrades(inp))

tradingCosts(inp, brokeragePercentage) ==
  Add(spreadCost(inp), totalBrokerageFees(inp, brokeragePercentage))

averageInvestmentValue(inp, fiv) == Div(Add(totalInvested(inp), fiv), FromInt(2))

dividendTaxes(inp, fiv) ==
  Mul(Mul(Mul(Div(inp.dividendYield, FromInt(100)), averageInvestmentValue(inp, fiv)),
          Div(inp.dividendTaxRate, FromInt(100))),
      inp.holdingPeriod)

\* variant: the sum leaves out the dividend taxes
totalCosts_withoutTaxes(expense, trading, taxes) == Add(expense, trading)

totalCosts(expense, trading, taxes) == Add(Add(expense, trading), taxes)

\* variant: the costs are spread over the months
annualizedTCO_perMonth(inp, costs) == Div(costs, totalMonths(inp))

annualizedTCO(inp, costs) == Div(costs, inp.holdingPeriod)

\* variant: the costs are added to the returns
netReturns_plusCosts(returns, costs) == Add(returns, costs)

netReturns(returns, costs) == Sub(returns, costs)

\* the TCOCalculation that calculateTCO returns, from the statement after the
\* loop on
calculateTCO(inp, percentageMode, brokeragePercentage, rfv) ==
  LET fiv      == finalInvestmentValue(inp, rfv)
      returns  == totalReturns(inp, fiv)
      expense  == expenseRatioCost(inp, percentageMode, fiv)
      trading  == tradingCosts(inp, brokeragePercentage)
      taxes    == dividendTaxes(inp, fiv)
      costs    == totalCosts(expense, trading, taxes)
  IN  [expenseRatioCost     |-> expense,
       tradingCosts         |-> trading,
       dividendTaxes        |-> taxes,
       totalCosts           |-> costs,
       annualizedTCO        |-> annualizedTCO(inp, costs),
       totalReturns         |-> returns,
       netReturns           |-> netReturns(returns, costs),
       finalInvestmentValue |-> fiv]

\* the `Total Invested' figure of the investment summary
totalInvestedSummary(inp) ==
  Add(inp.startCapital,
      Mul(Mul(inp.recurringAmount, FromInt(IF inp.isMonthly THEN 12 ELSE 1)),
          inp.holdingPeriod))

(***************************************************************************)
(* The form: text typed into a number field, and parseFloat.               *)
(* A text is a sequence of characters.  The characters of the model are    *)
(* digits, the sign, the decimal point and a letter that belongs to no     *)
(* numeric literal; exponents and white space do not occur in them.        *)
(***************************************************************************)
Alphabet == {"0", "1", "-", ".", "x"}

Texts == UNION {[1..k -> Alphabet] : k \in 0..MaxTextLen}

IsDigit(c) == c \in {"0", "1", "2", "3", "4", "5", "6", "7", "8", "9"}

DigitValue(c) ==
  CASE c = "0" -> 0 [] c = "1" -> 1 [] c = "2" -> 2 [] c = "3" -> 3 [] c = "4" -> 4
    [] c = "5" -> 5 [] c = "6" -> 6 [] c = "7" -> 7 [] c = "8" -> 8 [] c = "9" -> 9

\* number of consecutive digits of text from position from on
RECURSIVE DigitRun(_, _)
DigitRun(text, from) ==
  IF from <= Len(text) /\ IsDigit(text[from]) THEN 1 + DigitRun(text, from + 1) ELSE 0

\* the decimal value of the count digits of text that start at position from
RECURSIVE DigitsValue(_, _, _)
DigitsValue(text, from, count) ==
  IF count = 0 THEN 0
  ELSE 10 * DigitsValue(text, from, count - 1) + DigitValue(text[from + count - 1])

RECURSIVE Pow10(_)
Pow10(k) == IF k = 0 THEN 1 ELSE 10 * Pow10(k - 1)

\* parseFloat: the value of the longest prefix of text that is a decimal
\* literal ([+-] digits [. digits] or [+-] . digits), NaN when there is none
parseFloat(text) ==
  LET signLen  == IF Len(text) > 0 /\ text[1] \in {"+", "-"} THEN 1 ELSE 0
      intLen   == DigitRun(text, signLen + 1)
      dotAt    == signLen + intLen + 1
      fracLen  == IF dotAt <= Len(text) /\ text[dotAt] = "."
                  THEN DigitRun(text, dotAt + 1) ELSE 0
      absValue == Add(FromInt(DigitsValue(text, signLen + 1, intLen)),
                      Rat(DigitsValue(text, dotAt + 1, fracLen), Pow10(fracLen)))
  IN  IF intLen + fracLen = 0 THEN NaN
      ELSE IF signLen = 1 /\ text[1] = "-" THEN Neg(absValue)
      ELSE absValue

\* variant: the parsed value is stored as it is
OrZero_absent(x) == x

\* x || 0 for a number x: NaN and zero are falsy
OrZero(x) == IF IsNaN(x) \/ x = Zero THEN Zero ELSE x

\* the numeric fields of the inputs object
NumericFields ==
  {"startCapital", "recurringAmount", "holdingPeriod", "expenseRatio",
   "expenseRatioFixed", "bidAskSpread", "brokerageFee", "brokerageFeePercent",
   "numberOfShares", "dividendYield", "dividendTaxRate", "expectedReturn"}

\* the name attributes of the number inputs the form renders in a state
InputNames(percentageMode, brokeragePercentage) ==
  {"startCapital", "recurringAmount", "expectedReturn", "holdingPeriod",
   IF percentageMode THEN "expenseRatio" ELSE "expenseRatioFixed",
   "bidAskSpread",
   IF brokeragePercentage THEN "brokerageFeePercent" ELSE "brokerageFee",
   "numberOfShares", "dividendYield", "dividendTaxRate"}

\* useState initial values
InitialInputs ==
  [startCapital        |-> FromInt(10000),
   recurringAmount     |-> FromInt(500),
   isMonthly           |-> TRUE,
   holdingPeriod       |-> FromInt(5),
   expenseRatio        |-> Rat(20, 100),
   expenseRatioFixed   |-> FromInt(20),
   bidAskSpread        |-> Rat(5, 100),
   brokerageFee        |-> FromInt(10),
   brokerageFeePercent |-> Rat(1, 10),
   numberOfShares      |-> FromInt(200),
   dividendYield       |-> FromInt(2),
   dividendTaxRate     |-> FromInt(15),
   expectedReturn      |-> FromInt(7)]

\* lastEvent is the target of the event handled last: the name of the control
\* and, for a number input, its text
NoEvent == [name |-> "none", value |-> <<>>]

\* the state of the form: everything calculateTCO reads
FormState == <<inputs, isPercentageMode, isBrokeragePercentage>>

\* the switches.  After a click on a switch, before holds the state of the
\* form in which it was clicked; it is empty after any other event
ToggleNames == {"isMonthly", "isPercentageMode", "isBrokeragePercentage"}

\* results before calculateTCO has returned
NoResults ==
  [expenseRatioCost |-> NaN, tradingCosts |-> NaN, dividendTaxes |-> NaN,
   totalCosts |-> NaN, annualizedTCO |-> NaN, totalReturns |-> NaN,
   netReturns |-> NaN, finalInvestmentValue |-> NaN]

(***************************************************************************)
(* Spec: the form.  The App component after construction, and its event    *)
(* handlers.  calculateTCO reads only inputs and the two mode flags, so    *)
(* the projection itself is checked under SpecCalc below.                  *)
(***************************************************************************)
Init ==
  /\ inputs = InitialInputs
  /\ isPercentageMode = TRUE
  /\ isBrokeragePercentage = FALSE
  /\ results = NoResults
  /\ pc = "form"
  /\ nEvents = 0
  /\ i = 0
  /\ recurringFV = Zero
  /\ lastEvent = NoEvent
  /\ before = <<>>

\* onChange of the number input called name, holding the text value
handleInputChange(name, value) ==
  /\ pc = "form"
  /\ nEvents < MaxEvents
  /\ name \in InputNames(isPercentageMode, isBrokeragePercentage)
  /\ inputs' = [inputs EXCEPT ![name] = OrZero(parseFloat(value))]
  /\ lastEvent' = [name |-> name, value |-> value]
  /\ before' = <<>>
  /\ nEvents' = nEvents + 1
  /\ UNCHANGED <<isPercentageMode, isBrokeragePercentage, results, pc, i, recurringFV>>

\* onClick of the Monthly/Yearly switch
toggleIsMonthly ==
  /\ pc = "form"
  /\ nEvents < MaxEvents
  /\ inputs' = [inputs EXCEPT !.isMonthly = ~inputs.isMonthly]
  /\ lastEvent' = [name |-> "isMonthly", value |-> <<>>]
  /\ before' = <<FormState>>
  /\ nEvents' = nEvents + 1
  /\ UNCHANGED <<isPercentageMode, isBrokeragePercentage, results, pc, i, recurringFV>>

\* variant: switching the expense ratio mode clears the magnitude that was shown
toggleIsPercentageMode_clearsMagnitude ==
  /\ pc = "form"
  /\ nEvents < MaxEvents
  /\ isPercentageMode' = ~isPercentageMode
  /\ inputs' = [inputs EXCEPT ![IF isPercentageMode THEN "expenseRatio"
                                                   ELSE "expenseRatioFixed"] = Zero]
  /\ lastEvent' = [name |-> "isPercentageMode", value |-> <<>>]
  /\ before' = <<FormState>>
  /\ nEvents' = nEvents + 1
  /\ UNCHANGED <<isBrokeragePercentage, results, pc, i, recurringFV>>

\* onClick of the expense ratio Percentage/Fixed switch
toggleIsPercentageMode ==
  /\ pc = "form"
  /\ nEvents < MaxEvents
  /\ isPercentageMode' = ~isPercentageMode
  /\ lastEvent' = [name |-> "isPercentageMode", value |-> <<>>]
  /\ before' = <<FormState>>
  /\ nEvents' = nEvents + 1
  /\ UNCHANGED <<inputs, isBrokeragePercentage, results, pc, i, recurringFV>>

\* onClick of the brokerage fee Percentage/Fixed switch
toggleIsBrokeragePercentage ==
  /\ pc = "form"
  /\ nEvents < MaxEvents
  /\ isBrokeragePercentage' = ~isBrokeragePercentage
  /\ lastEvent' = [name |-> "isBrokeragePercentage", value |-> <<>>]
  /\ before' = <<FormState>>
  /\ nEvents' = nEvents + 1
  /\ UNCHANGED <<inputs, isPercentageMode, results, pc, i, recurringFV>>

Next ==
  \/ \E name \in NumericFields, value \in Texts : handleInputChange(name, value)
  \/ toggleIsMonthly
  \/ toggleIsPercentageMode
  \/ toggleIsBrokeragePercentage

Spec == Init /\ [][Next]_vars

(***************************************************************************)
(* SpecCalc: the projection.  One call of calculateTCO on a form state     *)
(* drawn from a bounded set of form states, each of which the form reaches *)
(* by typing the values and clicking the switches.                         *)
(***************************************************************************)
\* b^k <= limit, for b >= 1 and k >= 0
RECURSIVE GrowthWithin(_, _, _)
GrowthWithin(b, k, limit) ==
  IF k = 0 THEN limit >= 1
  ELSE IF b > limit THEN FALSE
  ELSE GrowthWithin(b, k - 1, limit \div b)

\* the powers of 1 + monthlyRate that the loop computes stay within MaxGrowth
GrowthFits(inp) ==
  LET growth == Add(One, monthlyRate(inp))
      months == totalMonths(inp).n
  IN  months <= 0
      \/ GrowthWithin(IF Abs(growth.n) > growth.d THEN Abs(growth.n) ELSE growth.d,
                      months, MaxGrowth)

HoldingPeriods == {FromInt(k) : k \in -1..MaxHolding}

FormStates ==
  {inp \in
     [startCapital        : {Zero, FromInt(100)},
      recurringAmount     : {Zero, FromInt(6)},
      isMonthly           : BOOLEAN,
      holdingPeriod       : HoldingPeriods,
      expenseRatio        : {Rat(20, 100), FromInt(1)},
      expenseRatioFixed   : {FromInt(20)},
      bidAskSpread        : {Rat(5, 100)},
      brokerageFee        : {FromInt(10)},
      brokerageFeePercent : {Rat(1, 10), FromInt(1)},
      numberOfShares      : {FromInt(200)},
      dividendYield       : {FromInt(2)},
      dividendTaxRate     : {FromInt(15)},
      expectedReturn      : {FromInt(7), Zero, FromInt(1200), FromInt(-1200)}] :
     GrowthFits(inp)}

InitCalc ==
  /\ inputs \in FormStates
  /\ isPercentageMode \in BOOLEAN
  /\ isBrokeragePercentage \in BOOLEAN
  /\ results = NoResults
  /\ pc = "call"
  /\ nEvents = 0
  /\ i = 0
  /\ recurringFV = Zero
  /\ lastEvent = NoEvent
  /\ before = <<>>

\* calculateTCO up to the loop: let recurringFV = 0; let i = 0
enterLoop ==
  /\ pc = "call"
  /\ recurringFV' = Zero
  /\ i' = 0
  /\ pc' = "loop"
  /\ UNCHANGED <<inputs, isPercentageMode, isBrokeragePercentage, results, nEvents, lastEvent, before>>

\* one iteration: recurringFV += ...; i++
loopStep ==
  /\ pc = "loop"
  /\ loopContinues(i, totalMonths(inputs))
  /\ recurringFV' = Add(recurringFV, loopTerm(inputs, i))
  /\ i' = i + 1
  /\ UNCHANGED <<inputs, isPercentageMode, isBrokeragePercentage, results, pc, nEvents, lastEvent, before>>

\* the loop test fails: the rest of calculateTCO, and const results = ...
returnResults ==
  /\ pc = "loop"
  /\ ~loopContinues(i, totalMonths(inputs))
  /\ results' = calculateTCO(inputs, isPercentageMode, isBrokeragePercentage, recurringFV)
  /\ pc' = "return"
  /\ UNCHANGED <<inputs, isPercentageMode, isBrokeragePercentage, nEvents, i, recurringFV, lastEvent, before>>

NextCalc == enterLoop \/ loopStep \/ returnResults

SpecCalc == InitCalc /\ [][NextCalc]_vars

(***************************************************************************)
(* Properties of the projection (SpecCalc).  Equality of numbers is        *)
(* identity of values: a non-finite result equals itself.                  *)
(***************************************************************************)
Returned == pc = "return"

\* startCapital + recurringAmount*12*holdingPeriod for a monthly cadence,
\* startCapital + recurringAmount*holdingPeriod for a yearly one
InvestedAmount(inp) ==
  IF inp.isMonthly
  THEN Add(inp.startCapital, Mul(Mul(inp.recurringAmount, FromInt(12)), inp.holdingPeriod))
  ELSE Add(inp.startCapital, Mul(inp.recurringAmount, inp.holdingPeriod))

\* C1: whatever the inputs and the two mode flags, the totalCosts of a
\* returned result is the sum expenseRatioCost + tradingCosts + dividendTaxes
\* of the same result.
C1_TotalCostsIsSum ==
  Returned =>
    results.totalCosts =
      Add(Add(results.expenseRatioCost, results.tradingCosts), results.dividendTaxes)

\* a returned result whose three cost components are finite and non-zero
C1_Witness ==
  /\ Returned
  /\ IsFinite(results.totalCosts)
  /\ results.expenseRatioCost # Zero
  /\ results.tradingCosts # Zero
  /\ results.dividendTaxes # Zero

\* C2: whatever the inputs and the mode flags, netReturns of a returned
\* result is totalReturns - totalCosts of the same result, and totalReturns
\* is finalInvestmentValue - totalInvested.
C2_NetReturnsIsReturnsMinusCosts ==
  Returned =>
    /\ results.netReturns = Sub(results.totalReturns, results.totalCosts)
    /\ results.totalReturns = Sub(results.finalInvestmentValue, totalInvested(inputs))

\* a returned result with finite, non-zero costs and returns
C2_Witness ==
  /\ Returned
  /\ IsFinite(results.netReturns)
  /\ results.totalCosts # Zero
  /\ results.totalReturns # Zero
  /\ totalInvested(inputs) # Zero

\* C3: for holdingPeriod > 0, annualizedTCO is totalCosts / holdingPeriod,
\* so that annualizedTCO * holdingPeriod is totalCosts.
C3_AnnualizedTCO ==
  (Returned /\ Lt(Zero, inputs.holdingPeriod)) =>
    /\ results.annualizedTCO = Div(results.totalCosts, inputs.holdingPeriod)
    /\ Mul(results.annualizedTCO, inputs.holdingPeriod) = results.totalCosts

\* a returned result for a holding period of more than one year
C3_Witness ==
  /\ Returned
  /\ Lt(One, inputs.holdingPeriod)
  /\ results.totalCosts # Zero
  /\ IsFinite(results.annualizedTCO)

C5_StartCapitalOnly ==
  (Returned /\ inputs.recurringAmount = Zero /\ ~Lt(inputs.holdingPeriod, One)) =>
    /\ recurringFV = Zero
    /\ results.finalInvestmentValue =
         Mul(inputs.startCapital,
             Pow(Add(One, Div(inputs.expectedReturn, FromInt(100))), inputs.holdingPeriod))

\* no recurring contribution, a start capital, and a rate and a period of
\* more than a year, for which annual compounding, monthly compounding and
\* simple interest all differ
C5_Witness ==
  /\ Returned
  /\ inputs.recurringAmount = Zero
  /\ ~Lt(inputs.holdingPeriod, One)
  /\ inputs.startCapital # Zero
  /\ inputs.expectedReturn = FromInt(-1200)
  /\ Lt(One, inputs.holdingPeriod)
  /\ i = 12 * inputs.holdingPeriod.n

\* values a form field is varied over in the independence properties
OtherValues == {Zero, One, FromInt(-3), Rat(7, 2)}

\* C6: in Percentage mode expenseRatioCost is
\* (expenseRatio/100) * finalInvestmentValue * holdingPeriod / 2 whatever
\* expenseRatioFixed is; in FixedAnnual mode it is
\* expenseRatioFixed * holdingPeriod whatever expenseRatio,
\* finalInvestmentValue, startCapital, recurringAmount and expectedReturn are.
C6_ExpenseRatioMode ==
  Returned =>
    /\ isPercentageMode =>
         /\ results.expenseRatioCost =
              Div(Mul(Mul(Div(inputs.expenseRatio, FromInt(100)),
                          results.finalInvestmentValue),
                      inputs.holdingPeriod),
                  FromInt(2))
         /\ \A v \in OtherValues :
              expenseRatioCost([inputs EXCEPT !.expenseRatioFixed = v], TRUE,
                               results.finalInvestmentValue)
                = results.expenseRatioCost
    /\ ~isPercentageMode =>
         /\ results.expenseRatioCost = Mul(inputs.expenseRatioFixed, inputs.holdingPeriod)
         /\ \A v \in OtherValues, f \in OtherValues :
              /\ expenseRatioCost([inputs EXCEPT !.expenseRatio = v], FALSE, f)
                   = results.expenseRatioCost
              /\ expenseRatioCost([inputs EXCEPT !.startCapital = v,
                                                 !.recurringAmount = f,
                                                 !.expectedReturn = v], FALSE, f)
                   = results.expenseRatioCost

\* a Percentage-mode result whose cost differs from what FixedAnnual mode
\* gives for the same inputs
C6_Witness ==
  /\ Returned
  /\ isPercentageMode
  /\ IsFinite(results.expenseRatioCost)
  /\ results.expenseRatioCost # Zero
  /\ results.expenseRatioCost # Mul(inputs.expenseRatioFixed, inputs.holdingPeriod)

\* the sum of inp's contributions compounded for lo, lo+1, ..., hi months
RECURSIVE CompoundedSum(_, _, _)
CompoundedSum(inp, lo, hi) ==
  IF lo > hi THEN Zero
  ELSE IF lo = hi
       THEN Mul(monthlyInvestment(inp), Pow(Add(One, monthlyRate(inp)), FromInt(lo)))
  ELSE Add(CompoundedSum(inp, lo, (lo + hi) \div 2),
           CompoundedSum(inp, (lo + hi) \div 2 + 1, hi))

\* the number of iterations for a whole number of months
Iterations(inp) == IF totalMonths(inp).n > 0 THEN totalMonths(inp).n ELSE 0

\* C9: for a whole holdingPeriod the loop adds exactly totalMonths terms: after
\* i iterations recurringFV is the sum of monthlyInvestment *
\* (1 + monthlyRate)^(totalMonths - k) over k = 0 .. i-1, every exponent is at
\* least 1, and the loop ends with i = totalMonths, so the exponents are
\* totalMonths down to 1, each once.
C9_RecurringFutureValue ==
  (pc \in {"loop", "return"} /\ IsWhole(inputs.holdingPeriod)) =>
    /\ i <= Iterations(inputs)
    /\ Returned => i = Iterations(inputs)
    /\ \A k \in 0..(i - 1) :
         /\ IsWhole(loopExponent(k, totalMonths(inputs)))
         /\ loopExponent(k, totalMonths(inputs)).n = totalMonths(inputs).n - k
         /\ loopExponent(k, totalMonths(inputs)).n >= 1
    /\ recurringFV =
         CompoundedSum(inputs, totalMonths(inputs).n - i + 1, totalMonths(inputs).n)

\* the loop has ended after 12 iterations of a growing, non-zero contribution
C9_Witness ==
  /\ Returned
  /\ i = 12
  /\ totalMonths(inputs) = FromInt(12)
  /\ inputs.recurringAmount # Zero
  /\ inputs.expectedReturn = FromInt(1200)
  /\ recurringFV = Mul(monthlyInvestment(inputs), FromInt(8190))

\* C10: tradingCosts is bidAskSpread * numberOfShares * numberOfTrades +
\* brokerageFeePerTrade * numberOfTrades, with numberOfTrades holdingPeriod*12
\* when monthly and holdingPeriod otherwise, and brokerageFeePerTrade
\* brokerageFee in fixed mode (whatever brokerageFeePercent and the amounts
\* invested) and (brokerageFeePercent/100) * (totalInvested / numberOfTrades)
\* in percentage mode (whatever brokerageFee).
C10_TradingCosts ==
  Returned =>
    LET trades == IF inputs.isMonthly
                  THEN Mul(inputs.holdingPeriod, FromInt(12))
                  ELSE inputs.holdingPeriod
        fee    == IF isBrokeragePercentage
                  THEN Mul(Div(inputs.brokerageFeePercent, FromInt(100)),
                           Div(InvestedAmount(inputs), trades))
                  ELSE inputs.brokerageFee
    IN  /\ numberOfTrades(inputs) = trades
        /\ brokerageFeePerTrade(inputs, isBrokeragePercentage) = fee
        /\ results.tradingCosts =
             Add(Mul(Mul(inputs.bidAskSpread, inputs.numberOfShares), trades),
                 Mul(fee, trades))
        /\ \A v \in OtherValues, w \in OtherValues :
             IF isBrokeragePercentage
             THEN brokerageFeePerTrade([inputs EXCEPT !.brokerageFee = v], TRUE) = fee
             ELSE brokerageFeePerTrade([inputs EXCEPT !.brokerageFeePercent = v,
                                                      !.startCapital = w,
                                                      !.recurringAmount = v], FALSE) = fee

\* a percentage-mode fee on yearly trades over two years
C10_Witness ==
  /\ Returned
  /\ isBrokeragePercentage
  /\ ~inputs.isMonthly
  /\ Lt(One, inputs.holdingPeriod)
  /\ inputs.recurringAmount # Zero
  /\ IsFinite(results.tradingCosts)
  /\ brokerageFeePerTrade(inputs, TRUE) # inputs.brokerageFee

(***************************************************************************)
(* Properties of the form (Spec).                                          *)
(***************************************************************************)
\* C7: in every state reachable from the initial form by input changes and
\* toggles, the holdingPeriod that calculateTCO reads is strictly positive,
\* so numberOfTrades is not 0 and neither totalInvested / numberOfTrades nor
\* totalCosts / holdingPeriod divides by zero.
C7_HoldingPeriodPositive ==
  /\ Lt(Zero, inputs.holdingPeriod)
  /\ numberOfTrades(inputs) # Zero
  /\ IsFinite(averageTradeSize(inputs))

\* C8: handleInputChange stores the parsed number when the text parses to a
\* number and 0 when it does not, so no numeric field of inputs is ever NaN.
C8_InvalidTextCoercedToZero ==
  /\ \A field \in NumericFields : ~IsNaN(inputs[field])
  /\ lastEvent.name \in NumericFields =>
       inputs[lastEvent.name] =
         IF IsNaN(parseFloat(lastEvent.value)) THEN Zero ELSE parseFloat(lastEvent.value)

\* a non-empty text that is no number was typed into a field that held a
\* non-zero number, after an earlier event
C8_Witness ==
  /\ nEvents = 2
  /\ lastEvent.name = "holdingPeriod"
  /\ lastEvent.value # <<>>
  /\ IsNaN(parseFloat(lastEvent.value))
  /\ inputs.holdingPeriod = Zero

(***************************************************************************)
(* Brokerage fees across cadences (SpecCalc).                              *)
(***************************************************************************)
\* the same plan at the other cadence: the start capital, the holding period
\* and the amount contributed per year are kept
OtherCadence(inp) ==
  [inp EXCEPT !.isMonthly = ~inp.isMonthly,
              !.recurringAmount = IF inp.isMonthly
                                  THEN Mul(inp.recurringAmount, FromInt(12))
                                  ELSE Div(inp.recurringAmount, FromInt(12))]

OnePieceChanges ==
  /\ lastEvent'.name \in NumericFields =>
       /\ \A field \in NumericFields \ {lastEvent'.name} : inputs'[field] = inputs[field]
       /\ inputs'.isMonthly = inputs.isMonthly
       /\ isPercentageMode' = isPercentageMode
       /\ isBrokeragePercentage' = isBrokeragePercentage
  /\ lastEvent'.name = "isPercentageMode" =>
       /\ isPercentageMode' = ~isPercentageMode
       /\ inputs' = inputs
       /\ isBrokeragePercentage' = isBrokeragePercentage
  /\ lastEvent'.name = "isBrokeragePercentage" =>
       /\ isBrokeragePercentage' = ~isBrokeragePercentage
       /\ inputs' = inputs
       /\ isPercentageMode' = isPercentageMode
  /\ lastEvent'.name = "isMonthly" =>
       /\ inputs'.isMonthly = ~inputs.isMonthly
       /\ \A field \in NumericFields : inputs'[field] = inputs[field]
       /\ isPercentageMode' = isPercentageMode
       /\ isBrokeragePercentage' = isBrokeragePercentage

\* the second of two consecutive clicks on the same switch gives back the
\* state of the form in which the first was made
SecondClickRestores ==
  (lastEvent'.name \in ToggleNames /\ lastEvent.name = lastEvent'.name) =>
    /\ before # <<>>
    /\ FormState' = before[1]

\* C11: each event changes exactly one piece of state: handleInputChange for a
\* field changes only that field of inputs, each switch only its own flag; so
\* both magnitudes of a dual-mode field survive a mode switch, and clicking a
\* switch twice restores the previous state of the form, that is everything
\* calculateTCO reads, and with it the previous result.
C11_EventsChangeOnePiece == [][OnePieceChanges /\ SecondClickRestores]_vars

\* the expense ratio switch was clicked twice from the initial form: the form
\* is as it was, both magnitudes included, and in between the mode was Fixed
C11_Witness ==
  /\ nEvents = 2
  /\ lastEvent.name = "isPercentageMode"
  /\ before = <<(<<InitialInputs, FALSE, FALSE>>)>>
  /\ FormState = <<InitialInputs, TRUE, FALSE>>
  /\ inputs.expenseRatio = Rat(20, 100)
  /\ inputs.expenseRatioFixed = FromInt(20)

====
